---- MODULE Spec2Model ----
(***************************************************************************)
(* Model of app.py, the Streamlit "Summarizer" script.                     *)
(*                                                                         *)
(* One run of the script is modelled from the moment the page is rendered  *)
(* (pc = "idle") through a press of the "Summarize ..." button.  Python    *)
(* strings are sequences of one-character strings, so that strip, split,   *)
(* lower, "in" and join are computed the way Python computes them.  Every  *)
(* call the script makes to a collaborator (streamlit, the loaders, the    *)
(* summarize chain, time.sleep) is appended to `log` in program order.     *)
(***************************************************************************)
EXTENDS Integers, Sequences, FiniteSets, TLC

VARIABLES
    groq_api_key,        \* os.getenv("GROQ_API_KEY"): None or a string
    topic_title,         \* st.text_input("Topic or Title")
    summarization_type,  \* st.selectbox(...)
    input_urls,          \* st.text_area(...), bound in "URLs" mode only
    pdf_files,           \* st.file_uploader(...), bound in "PDF Files" mode only
    text_files,          \* st.file_uploader(...), bound in "Text Files" mode only
    pc,                  \* position of the script
    urls,                \* the list built on line 129
    idx,                 \* 1-based position of the for loop of process_*
    docs,                \* the list of Documents
    summaries,           \* summarize_docs: summaries
    i,                   \* summarize_docs: loop variable of range(0, len(docs), batch_size)
    summary,             \* value returned by summarize_docs
    log,                 \* calls made to collaborators, in order
    uncaught             \* type of the exception that left the script, "" if none

vars == <<groq_api_key, topic_title, summarization_type, input_urls, pdf_files,
          text_files, pc, urls, idx, docs, summaries, i, summary, log, uncaught>>

inputs == <<groq_api_key, topic_title, summarization_type, input_urls, pdf_files,
            text_files>>

(***************************************************************************)
(* Bounds of the model.                                                    *)
(***************************************************************************)
MaxUrls == 3

MaxPdfs == 2

MaxPages == 2

MaxFiles == 2

MaxDocs == 11

(***************************************************************************)
(* Python values and string operations.                                    *)
(***************************************************************************)
None == <<"None">>

NL == "\n"

Whitespace == {" ", "\t", "\n"}

UpperCase == <<"A","B","C","D","E","F","G","H","I","J","K","L","M",
               "N","O","P","Q","R","S","T","U","V","W","X","Y","Z">>

LowerCase == <<"a","b","c","d","e","f","g","h","i","j","k","l","m",
               "n","o","p","q","r","s","t","u","v","w","x","y","z">>

Digit == <<"0","1","2","3","4","5","6","7","8","9">>

Min(a, b) == IF a < b THEN a ELSE b

SeqsUpTo(S, n) == UNION {[1..k -> S] : k \in 0..n}

\* bool(x) for None and strings
Truthy(x) == x # None /\ x # <<>>

\* bool(xs) for lists
TruthyList(xs) == Len(xs) > 0

RECURSIVE lstrip(_)
lstrip(s) ==
    IF s = <<>> THEN s
    ELSE IF Head(s) \in Whitespace THEN lstrip(Tail(s)) ELSE s

RECURSIVE rstrip(_)
rstrip(s) ==
    IF s = <<>> THEN s
    ELSE IF s[Len(s)] \in Whitespace THEN rstrip(SubSeq(s, 1, Len(s) - 1)) ELSE s

\* str.strip()
strip(s) == rstrip(lstrip(s))

\* str.split(sep) for a one-character separator
RECURSIVE split(_, _)
split(s, sep) ==
    IF \A k \in DOMAIN s : s[k] # sep THEN <<s>>
    ELSE LET k == CHOOSE k \in DOMAIN s : s[k] = sep /\ \A j \in 1..(k - 1) : s[j] # sep
         IN  <<SubSeq(s, 1, k - 1)>> \o split(SubSeq(s, k + 1, Len(s)), sep)

\* sep.join(xs) for a one-character separator
RECURSIVE join(_, _)
join(sep, xs) ==
    IF xs = <<>> THEN <<>>
    ELSE IF Len(xs) = 1 THEN xs[1]
    ELSE xs[1] \o <<sep>> \o join(sep, Tail(xs))

\* sub in s
Contains(sub, s) ==
    \E k \in 0..(Len(s) - Len(sub)) : SubSeq(s, k + 1, k + Len(sub)) = sub

LowerChar(c) ==
    IF \E k \in DOMAIN UpperCase : UpperCase[k] = c
    THEN LowerCase[CHOOSE k \in DOMAIN UpperCase : UpperCase[k] = c]
    ELSE c

\* str.lower()
lower(s) == [k \in DOMAIN s |-> LowerChar(s[k])]

StartsWith(p, s) == Len(s) >= Len(p) /\ SubSeq(s, 1, Len(p)) = p

(***************************************************************************)
(* Literals of the script.                                                 *)
(***************************************************************************)
YOUTUBE == <<"y","o","u","t","u","b","e",".","c","o","m">>

RATE_LIMIT == <<"r","a","t","e"," ","l","i","m","i","t">>

batch_size == 5

SleepSecs == 300

MsgProvide == "Please provide the Groq API Key and a topic/title to get started."

MsgInvalidUrl == "Invalid URL: {url}"

MsgBatchError == "An error occurred during summarization: {e}"

MsgTopError == "An error occurred: {e}"

MsgRateLimit == "Rate limit reached. Retrying after a pause..."

MsgSuccess == "Summary generated successfully for {summarization_type}!"

(***************************************************************************)
(* Records of the calls made to collaborators.                             *)
(***************************************************************************)
Ev(op, tmpl, arg, raised, val) ==
    [op |-> op, tmpl |-> tmpl, arg |-> arg, raised |-> raised, val |-> val]

StError(tmpl, arg) == Ev("st.error", tmpl, arg, FALSE, <<>>)

StException(tmpl, e) == Ev("st.exception", tmpl, e, FALSE, <<>>)

StInfo(tmpl) == Ev("st.info", tmpl, <<>>, FALSE, <<>>)

StSuccess(tmpl, arg) == Ev("st.success", tmpl, arg, FALSE, <<>>)

StWrite(text) == Ev("st.write", "", text, FALSE, <<>>)

Sleep(secs) == Ev("time.sleep", "", <<secs>>, FALSE, <<>>)

Load(loader, url, r) == Ev("loader.load", loader, url, r.raised, r.val)

ChainRun(batch, r) == Ev("chain.run", "", batch, r.raised, r.val)

Document(text) == [page_content |-> text]

(***************************************************************************)
(* The environment: what the user can enter, and what the collaborators    *)
(* can answer.                                                             *)
(***************************************************************************)
HTTP == <<"h","t","t","p",":","/","/">>

HTTPS == <<"h","t","t","p","s",":","/","/">>

UrlVideo == YOUTUBE \o <<"/","v","=","1">>

UrlWeb == HTTP \o <<"a",".","i","o">>

UrlPadded == <<" ">> \o HTTPS \o <<"b",".","i","o">> \o <<" ">>

UrlBad == <<"b","a","d">>

UrlLines == {UrlVideo, UrlWeb, UrlPadded, UrlBad, <<" ">>}

EnvKeys == {None, <<>>, <<" ", "\t">>, <<"g","s","k">>}

Topics == {<<>>, <<" ", " ">>, <<"A","I">>}

Modes == {"URLs", "PDF Files", "Text Files"}

\* page.extract_text() of a page
PageTexts == {None, <<>>, <<"p">>, <<"q">>}

\* an uploaded file with the .pdf extension: a PDF with pages, or bytes
\* pdfplumber cannot open
PdfUploads ==
    {[parses |-> TRUE, pages |-> ps] : ps \in SeqsUpTo(PageTexts, MaxPages)}
        \cup {[parses |-> FALSE, pages |-> <<>>]}

\* the uploads tried through the whole page: a PDF without pages, PDFs with
\* and without text, and a file that is not a PDF
SamplePdfs ==
    { [parses |-> TRUE, pages |-> <<>>],
      [parses |-> TRUE, pages |-> <<None, <<>>>>],
      [parses |-> TRUE, pages |-> <<<<"p">>, <<>>, <<"q">>>>],
      [parses |-> FALSE, pages |-> <<>>] }

\* bytes of an uploaded text file
TextUploads == {<<72, 105>>, <<>>, <<255>>}

\* validators.url(url): a scheme, a host, no whitespace
validators_url(url) ==
    /\ \A k \in DOMAIN url : url[k] \notin Whitespace
    /\ \/ StartsWith(HTTP, url) /\ Len(url) > Len(HTTP)
       \/ StartsWith(HTTPS, url) /\ Len(url) > Len(HTTPS)

\* text a loader extracts from a url
Fetched(url) == <<"#">> \o url

ErrLoad == <<"l","o","a","d">>

\* loader.load(): a list with the Document of the url, an empty list, or an
\* exception
LoadResults(url) ==
    { [raised |-> FALSE, val |-> <<Document(Fetched(url))>>],
      [raised |-> FALSE, val |-> <<>>],
      [raised |-> TRUE, val |-> ErrLoad] }

ErrMixed == <<"4","2","9"," ","R","a","t","e"," ","L","i","m","i","t">>

ErrLower == RATE_LIMIT

ErrUpper == <<"R","A","T","E"," ","L","I","M","I","T">>

ErrDash == <<"r","a","t","e","-","l","i","m","i","t">>

ErrTimeout == <<"t","i","m","e","o","u","t">>

ErrMsgs == {ErrMixed, ErrLower, ErrUpper, ErrDash, ErrTimeout}

Outputs == {<<>>, <<"S">>, <<"T">>}

\* chain.run(batch): a summary, or an exception with a message
RunResults ==
    {[raised |-> FALSE, val |-> o] : o \in Outputs}
        \cup {[raised |-> TRUE, val |-> m] : m \in ErrMsgs}

ErrConstruct == <<"k","e","y">>

\* bytes.decode("utf-8") raises on a byte that occurs in no UTF-8 sequence
InvalidUtf8(bytes) ==
    \E k \in DOMAIN bytes : bytes[k] \in ({192, 193} \cup (245..255))

AsciiChar(b) ==
    CASE b = 72 -> "H"
      [] b = 105 -> "i"
      [] b = 32 -> " "
      [] b = 10 -> "\n"
      [] OTHER -> "?"

decode(bytes) == [k \in DOMAIN bytes |-> AsciiChar(bytes[k])]

(***************************************************************************)
(* The state after the page is rendered.  Only the widget of the selected  *)
(* mode exists (lines 111-118); the other inputs are left empty.           *)
(***************************************************************************)
Init ==
    /\ groq_api_key \in EnvKeys
    /\ topic_title \in Topics
    /\ summarization_type \in Modes
    /\ input_urls \in
         IF summarization_type = "URLs"
         THEN {join(NL, ls) : ls \in SeqsUpTo(UrlLines, MaxUrls)}
         ELSE {<<>>}
    /\ pdf_files \in
         IF summarization_type = "PDF Files"
         THEN SeqsUpTo(SamplePdfs, MaxFiles)
         ELSE {<<>>}
    /\ text_files \in
         IF summarization_type = "Text Files"
         THEN SeqsUpTo(TextUploads, MaxFiles)
         ELSE {<<>>}
    /\ pc = "idle"
    /\ urls = <<>>
    /\ idx = 1
    /\ docs = <<>>
    /\ summaries = <<>>
    /\ i = 0
    /\ summary = None
    /\ log = <<>>
    /\ uncaught = ""

(***************************************************************************)
(* Lines 124-134: the button handler up to the call of process_*.          *)
(***************************************************************************)
\* line 129
ParseUrls(text) ==
    LET parts == split(text, NL)
        stripped == [k \in DOMAIN parts |-> strip(parts[k])]
    IN  SelectSeq(stripped, LAMBDA u : Truthy(u))

ProcessPc(mode) ==
    CASE mode = "URLs" -> "process_urls"
      [] mode = "PDF Files" -> "process_pdfs"
      [] mode = "Text Files" -> "process_texts"

Press ==
    /\ pc = "idle"
    /\ IF groq_api_key = None
       THEN \* None.strip() on line 125
            /\ pc' = "crashed"
            /\ uncaught' = "AttributeError"
            /\ UNCHANGED <<urls, idx, docs, log>>
       ELSE IF ~Truthy(strip(groq_api_key)) \/ ~Truthy(strip(topic_title))
       THEN /\ log' = Append(log, StError(MsgProvide, <<>>))
            /\ pc' = "done"
            /\ UNCHANGED <<urls, idx, docs, uncaught>>
       ELSE /\ pc' = ProcessPc(summarization_type)
            /\ urls' = IF summarization_type = "URLs" THEN ParseUrls(input_urls) ELSE urls
            /\ idx' = 1
            /\ docs' = <<>>
            /\ UNCHANGED <<log, uncaught>>
    /\ UNCHANGED <<inputs, summaries, i, summary>>

(***************************************************************************)
(* Lines 26-44: one iteration of the loop of process_urls.                 *)
(***************************************************************************)
LoadUrl(loader, url) ==
    \E r \in LoadResults(url) :
        /\ log' = Append(log, Load(loader, url, r))
        /\ IF r.raised
           THEN \* nothing catches the exception
                /\ pc' = "crashed"
                /\ uncaught' = "LoaderError"
                /\ UNCHANGED <<idx, docs>>
           ELSE /\ docs' = docs \o r.val
                /\ idx' = idx + 1
                /\ UNCHANGED <<pc, uncaught>>

ProcessUrl ==
    /\ pc = "process_urls"
    /\ idx <= Len(urls)
    /\ LET url == urls[idx] IN
         IF Contains(YOUTUBE, url)
         THEN LoadUrl("YoutubeLoader", url)
         ELSE IF validators_url(url)
         THEN LoadUrl("UnstructuredURLLoader", url)
         ELSE /\ log' = Append(log, StError(MsgInvalidUrl, url))
              /\ idx' = idx + 1
              /\ UNCHANGED <<pc, docs, uncaught>>
    /\ UNCHANGED <<inputs, urls, summaries, i, summary>>

(***************************************************************************)
(* Lines 47-54: one iteration of the loop of process_pdfs.                 *)
(***************************************************************************)
PageKeptEmpty(t) == t # None

\* line 52: if page.extract_text()
PageKept(t) == Truthy(t)

\* line 52
PdfText(pages) == join(NL, SelectSeq(pages, PageKept))

ProcessPdf ==
    /\ pc = "process_pdfs"
    /\ idx <= Len(pdf_files)
    /\ LET pdf_file == pdf_files[idx] IN
         IF ~pdf_file.parses
         THEN \* pdfplumber.open raises; nothing catches it
              /\ pc' = "crashed"
              /\ uncaught' = "PDFSyntaxError"
              /\ UNCHANGED <<idx, docs>>
         ELSE /\ docs' = Append(docs, Document(PdfText(pdf_file.pages)))
              /\ idx' = idx + 1
              /\ UNCHANGED <<pc, uncaught>>
    /\ UNCHANGED <<inputs, urls, summaries, i, summary, log>>

(***************************************************************************)
(* Lines 57-63: one iteration of the loop of process_texts.                *)
(***************************************************************************)
ProcessText ==
    /\ pc = "process_texts"
    /\ idx <= Len(text_files)
    /\ LET bytes == text_files[idx] IN
         IF InvalidUtf8(bytes)
         THEN /\ pc' = "crashed"
              /\ uncaught' = "UnicodeDecodeError"
              /\ UNCHANGED <<idx, docs>>
         ELSE /\ docs' = Append(docs, Document(decode(bytes)))
              /\ idx' = idx + 1
              /\ UNCHANGED <<pc, uncaught>>
    /\ UNCHANGED <<inputs, urls, summaries, i, summary, log>>

(***************************************************************************)
(* The return of process_* and line 137: if docs.                          *)
(***************************************************************************)
Items ==
    CASE pc = "process_urls" -> urls
      [] pc = "process_pdfs" -> pdf_files
      [] pc = "process_texts" -> text_files
      [] OTHER -> <<>>

ExtractReturn ==
    /\ pc \in {"process_urls", "process_pdfs", "process_texts"}
    /\ idx > Len(Items)
    /\ pc' = IF TruthyList(docs) THEN "summarize_docs" ELSE "done"
    /\ UNCHANGED <<inputs, urls, idx, docs, summaries, i, summary, log, uncaught>>

(***************************************************************************)
(* Lines 66-100: summarize_docs.                                           *)
(***************************************************************************)
TopLevelFailureText == <<"E","r","r","o","r">>

\* line 100
TopLevelFailureResult == None

\* lines 67-83 and 98-100: client, prompt and chain construction
SummarizeStart ==
    /\ pc = "summarize_docs"
    /\ \E constructed \in BOOLEAN :
         IF constructed
         THEN /\ summaries' = <<>>
              /\ i' = 0
              /\ pc' = "batches"
              /\ UNCHANGED <<summary, log>>
         ELSE /\ summaries' = <<>>
              /\ log' = Append(log, StException(MsgTopError, ErrConstruct))
              /\ summary' = TopLevelFailureResult
              /\ pc' = "returned"
              /\ UNCHANGED i
    /\ UNCHANGED <<inputs, urls, idx, docs, uncaught>>

BatchOverlap(d, k) == SubSeq(d, k + 1, Min(k + batch_size + 1, Len(d)))

\* line 85: docs[i:i+batch_size]
Batch(d, k) == SubSeq(d, k + 1, Min(k + batch_size, Len(d)))

IsRateLimitCaseSensitive(e) == Contains(RATE_LIMIT, e)

IsRateLimitAny(e) == TRUE

\* line 91: "rate limit" in str(e).lower()
IsRateLimit(e) == Contains(RATE_LIMIT, lower(e))

OnSuccessPrepend(ss, out) == <<out>> \o ss

\* line 88
OnSuccess(ss, out) == Append(ss, out)

\* lines 84-93: one iteration of the batch loop
RunBatch ==
    /\ pc = "batches"
    /\ i < Len(docs)
    /\ LET batch == Batch(docs, i) IN
         \E r \in RunResults :
             IF ~r.raised
             THEN /\ summaries' = OnSuccess(summaries, r.val)
                  /\ log' = Append(log, ChainRun(batch, r))
             ELSE /\ summaries' = summaries
                  /\ log' = log \o <<ChainRun(batch, r), StException(MsgBatchError, r.val)>>
                                \o (IF IsRateLimit(r.val)
                                    THEN <<StInfo(MsgRateLimit), Sleep(SleepSecs)>>
                                    ELSE <<>>)
    /\ i' = i + batch_size
    /\ UNCHANGED <<inputs, pc, urls, idx, docs, summary, uncaught>>

\* lines 95-96
SummarizeReturn ==
    /\ pc = "batches"
    /\ i >= Len(docs)
    /\ summary' = join(NL, summaries)
    /\ pc' = "returned"
    /\ UNCHANGED <<inputs, urls, idx, docs, summaries, i, log, uncaught>>

(***************************************************************************)
(* Lines 139-141: the handler shows the result.                            *)
(***************************************************************************)
Display ==
    /\ pc = "returned"
    /\ log' = IF Truthy(summary)
              THEN log \o <<StSuccess(MsgSuccess, <<summarization_type>>), StWrite(summary)>>
              ELSE log
    /\ pc' = "done"
    /\ UNCHANGED <<inputs, urls, idx, docs, summaries, i, summary, uncaught>>

Next ==
    \/ Press
    \/ ProcessUrl
    \/ ProcessPdf
    \/ ProcessText
    \/ ExtractReturn
    \/ SummarizeStart
    \/ RunBatch
    \/ SummarizeReturn
    \/ Display

Spec == Init /\ [][Next]_vars

(***************************************************************************)
(* summarize_docs on its own: the state at the call on line 138, for       *)
(* Document lists long enough to need several batches.                     *)
(***************************************************************************)
DocText(k) == <<"d", Digit[(k \div 10) + 1], Digit[(k % 10) + 1]>>

InitSum ==
    /\ groq_api_key = <<"g","s","k">>
    /\ topic_title = <<"A","I">>
    /\ summarization_type = "Text Files"
    /\ input_urls = <<>>
    /\ pdf_files = <<>>
    /\ text_files = <<>>
    /\ pc = "summarize_docs"
    /\ urls = <<>>
    /\ idx = 1
    /\ docs \in {[k \in 1..n |-> Document(DocText(k))] : n \in 1..MaxDocs}
    /\ summaries = <<>>
    /\ i = 0
    /\ summary = None
    /\ log = <<>>
    /\ uncaught = ""

NextSum ==
    \/ SummarizeStart
    \/ RunBatch
    \/ SummarizeReturn

SpecSum == InitSum /\ [][NextSum]_vars

(***************************************************************************)
(* process_pdfs on its own: the state at the call on line 132, for every   *)
(* list of uploads within the bounds.                                      *)
(***************************************************************************)
InitPdf ==
    /\ groq_api_key = <<"g","s","k">>
    /\ topic_title = <<"A","I">>
    /\ summarization_type = "PDF Files"
    /\ input_urls = <<>>
    /\ pdf_files \in SeqsUpTo(PdfUploads, MaxPdfs)
    /\ text_files = <<>>
    /\ pc = "process_pdfs"
    /\ urls = <<>>
    /\ idx = 1
    /\ docs = <<>>
    /\ summaries = <<>>
    /\ i = 0
    /\ summary = None
    /\ log = <<>>
    /\ uncaught = ""

NextPdf ==
    \/ ProcessPdf
    \/ ExtractReturn

SpecPdf == InitPdf /\ [][NextPdf]_vars

(***************************************************************************)
(* Vocabulary of the properties.  These are stated from the log of calls   *)
(* and from the inputs, not from the operators the actions use.            *)
(***************************************************************************)
CallsOf(op) == SelectSeq(log, LAMBDA e : e.op = op)

Runs == CallsOf("chain.run")

CeilDiv(n, d) == (n + d - 1) \div d

\* the b-th contiguous slice of five Documents
Slice(b) == SubSeq(docs, 5 * (b - 1) + 1, Min(5 * b, Len(docs)))

\* number of the batch submitted by the call at position k of the log
RunIndex(k) == Cardinality({j \in 1..k : log[j].op = "chain.run"})

\* error messages that contain "rate limit" in some letter case
RateLimitMsgs == {ErrMixed, ErrLower, ErrUpper}

RateLimited(e) == e.op = "chain.run" /\ e.raised /\ e.val \in RateLimitMsgs

OtherFailure(e) == e.op = "chain.run" /\ e.raised /\ e.val \notin RateLimitMsgs

\* summaries of the calls that succeeded, in the order of the calls
SuccVals ==
    LET ok == SelectSeq(Runs, LAMBDA e : ~e.raised)
    IN  [k \in DOMAIN ok |-> ok[k].val]

RECURSIVE Lines(_)
Lines(xs) ==
    IF Len(xs) = 0 THEN <<>>
    ELSE IF Len(xs) = 1 THEN xs[1]
    ELSE Lines(SubSeq(xs, 1, Len(xs) - 1)) \o <<"\n">> \o xs[Len(xs)]

RECURSIVE Flatten(_)
Flatten(xss) == IF xss = <<>> THEN <<>> ELSE Head(xss) \o Flatten(Tail(xss))

TopFailed == \E k \in DOMAIN log : log[k].op = "st.exception" /\ log[k].tmpl = MsgTopError

Blank(s) == \A k \in DOMAIN s : s[k] \in {" ", "\t", "\n"}

KeyMissing == groq_api_key = None \/ Blank(groq_api_key)

InputsOk == ~KeyMissing /\ ~Blank(topic_title)

Shown(op) == \E k \in DOMAIN log : log[k].op = op

(***************************************************************************)
(* C1: when the button is pressed and the credential is absent, blank or   *)
(* whitespace-only, or the topic is blank or whitespace-only, the action   *)
(* ends with the error message as its only effect: no extraction, no       *)
(* completion call, no crash.                                               *)
(***************************************************************************)
C1_BlankInputsShowError ==
    (pc # "idle" /\ (KeyMissing \/ Blank(topic_title)))
        => /\ pc = "done"
           /\ uncaught = ""
           /\ log = <<StError(MsgProvide, <<>>)>>

InvalidUrl(u) == ~Contains(YOUTUBE, u) /\ ~validators_url(u)

C4_OneDocumentPerUrl ==
    (summarization_type = "URLs" /\ InputsOk /\ pc \notin {"idle", "process_urls"})
        => /\ uncaught = ""
           /\ LET loads == CallsOf("loader.load")
                  errs == SelectSeq(log, LAMBDA e : e.op = "st.error" /\ e.tmpl = MsgInvalidUrl)
              IN  /\ docs = Flatten([k \in DOMAIN loads |-> loads[k].val])
                  /\ [k \in DOMAIN loads |-> loads[k].arg]
                        = SelectSeq(urls, LAMBDA u : ~InvalidUrl(u))
                  /\ [k \in DOMAIN errs |-> errs[k].arg] = SelectSeq(urls, InvalidUrl)

(***************************************************************************)
(* C5: when chain construction succeeds, summarize_docs returns the        *)
(* summaries of the batches whose call succeeded, joined by newlines, in   *)
(* batch order, each once.                                                 *)
(***************************************************************************)
C5_JoinedInBatchOrder ==
    (pc = "returned" /\ ~TopFailed)
        => /\ summary = Lines(SuccVals)
           /\ \A k \in DOMAIN Runs : Runs[k].arg = Slice(k)
           /\ Len(SuccVals) = Cardinality({k \in DOMAIN Runs : ~Runs[k].raised})

C5_Witness ==
    /\ pc = "returned"
    /\ Len(Runs) = 3
    /\ ~Runs[1].raised /\ Runs[1].val = <<"S">>
    /\ Runs[2].raised
    /\ ~Runs[3].raised /\ Runs[3].val = <<"T">>
    /\ summary = <<"S", "\n", "T">>

(***************************************************************************)
(* C6: in URL mode a loader that raises does not end the action: no        *)
(* exception leaves the script, and the URLs after the failing one are     *)
(* still handled.                                                          *)
(***************************************************************************)
C6_LoaderFailureContinues ==
    (\E k \in DOMAIN log : log[k].op = "loader.load" /\ log[k].raised)
        => /\ uncaught = ""
           /\ pc # "crashed"
           /\ pc # "process_urls" =>
                 Len(CallsOf("loader.load")) = Len(SelectSeq(urls, LAMBDA u : ~InvalidUrl(u)))

(***************************************************************************)
(* C7: process_pdfs produces one Document per uploaded PDF, in upload      *)
(* order, whose content is the newline-join of the texts of the pages      *)
(* that have text, in page order; a page without text adds nothing.        *)
(***************************************************************************)
PagesWithText(pages) == SelectSeq(pages, LAMBDA t : t \notin {None, <<>>})

C7_PdfText ==
    (summarization_type = "PDF Files" /\ pc # "idle" /\ InputsOk)
        => /\ Len(docs) <= Len(pdf_files)
           /\ \A k \in DOMAIN docs :
                 docs[k] = [page_content |-> Lines(PagesWithText(pdf_files[k].pages))]
           /\ pc = "process_pdfs" => Len(docs) = idx - 1
           /\ pc \in {"summarize_docs", "batches", "returned", "done"}
                 => Len(docs) = Len(pdf_files)

C7_Witness ==
    /\ summarization_type = "PDF Files"
    /\ pc = "summarize_docs"
    /\ Len(pdf_files) = 2
    /\ pdf_files[1].pages = <<<<"p">>, <<"q">>>>
    /\ pdf_files[2].pages = <<None, <<"q">>>>
    /\ docs = <<[page_content |-> <<"p", "\n", "q">>], [page_content |-> <<"q">>]>>

(***************************************************************************)
(* C8: a press of the button that runs to completion shows a success       *)
(* message with the summary, or at least one error message.                *)
(***************************************************************************)
C8_SomethingShown ==
    pc = "done"
        => \/ Shown("st.success") /\ Shown("st.write")
           \/ Shown("st.error")
           \/ Shown("st.exception")

(***************************************************************************)
(* C9: a completion call that fails with a message without "rate limit"    *)
(* is followed by the error report and then directly by the request of     *)
(* the next batch, with no sleep; the sleeps of a run are as many as the   *)
(* calls that failed with a rate-limit message, and a failed batch adds    *)
(* no summary.                                                             *)
(***************************************************************************)
C9_OtherFailureNoPause ==
    /\ \A k \in DOMAIN log :
          OtherFailure(log[k]) =>
             /\ Len(log) >= k + 1
             /\ log[k + 1].op = "st.exception"
             /\ log[k + 1].arg = log[k].val
             /\ Len(log) > k + 1 =>
                   /\ log[k + 2].op = "chain.run"
                   /\ log[k + 2].arg = Slice(RunIndex(k) + 1)
    /\ Len(CallsOf("time.sleep")) = Cardinality({k \in DOMAIN log : RateLimited(log[k])})
    /\ \A k \in DOMAIN log : log[k].op = "time.sleep" => log[k].arg = <<300>>
    /\ Len(summaries) = Cardinality({k \in DOMAIN Runs : ~Runs[k].raised})

C9_Witness ==
    /\ pc = "returned"
    /\ Len(Runs) = 3
    /\ Runs[1].raised /\ Runs[1].val = ErrDash
    /\ Runs[2].raised /\ Runs[2].val = ErrLower
    /\ ~Runs[3].raised /\ Runs[3].val = <<"T">>
    /\ Len(CallsOf("time.sleep")) = 1
    /\ summary = <<"T">>

(***************************************************************************)
(* C10: when the construction of the client, prompt or chain raises,       *)
(* summarize_docs reports the error, issues no completion request and      *)
(* returns None, and the handler shows neither a success message nor a     *)
(* summary.                                                                *)
(***************************************************************************)
C10_TopLevelFailure ==
    TopFailed
        => /\ pc \in {"returned", "done"}
           /\ Runs = <<>>
           /\ summary = None
           /\ ~Shown("st.success")
           /\ ~Shown("st.write")
           /\ Len(CallsOf("st.exception")) = 1

C10_Witness ==
    /\ pc = "done"
    /\ TopFailed
    /\ Len(docs) = 2

====
